---- MODULE Spec2Model ----
(***************************************************************************)
(* The Dashboard view of autoscale-cirm (web/src/pages/Dashboard.jsx):     *)
(* the configuration request issued at mount, the synchronisation effect   *)
(* keyed on (resourceId, range), its loadData cycles with their three      *)
(* concurrently issued fetches, the 30 s interval and the effect cleanup.  *)
(*                                                                         *)
(* One action is one task of the browser's event loop: a user event, an    *)
(* interval callback, or the settling of one request together with every   *)
(* promise continuation it triggers.  React 18 renders the batched state   *)
(* updates of a task and runs the effects they trigger before the next     *)
(* task of the view, so the re-run of an effect belongs to the action      *)
(* that changed its dependencies.                                          *)
(***************************************************************************)
EXTENDS Integers, Sequences, FiniteSets, TLC

VARIABLES
    mounted,             \* the Dashboard component is mounted
    configReq,           \* position of loadConfig: "pending", "ok", "failed"
    config,              \* useState(null): NoConfig or the resource_ids list
    resourceId,          \* useState("")
    range,               \* useState("6h")
    metrics,             \* useState([]): cycle whose response it holds, 0 = []
    availableResources,  \* useState([]): [cycle, list]
    latest,              \* useState(null)
    forecasts,           \* useState([])
    alerts,              \* useState([])
    error,               \* useState(null)
    loading,             \* useState(true)
    effects,             \* instances of the sync effect, in creation order
    cycles,              \* invocations of loadData, in start order
    limit,               \* how many cycles the exploration follows
    props,               \* argument of the derivation or component rendered
    rendered,            \* << >>, or <<what the derivation or component returned>>
    settings             \* the Settings page: its state and its requests

data == <<metrics, availableResources, latest, forecasts, alerts>>
\* State that no handler of the Dashboard's synchronisation reads or writes.
outside == <<props, rendered, settings>>
vars == <<mounted, configReq, config, resourceId, range, metrics,
          availableResources, latest, forecasts, alerts, error, loading,
          effects, cycles, limit, props, rendered, settings>>

\* ---------------------------------------------------------------- bounds
\* Cycles followed under Spec, and under SpecLong (two periodic cycles need a
\* third one, the first cycle of their effect instance, before them).
MaxCycles == 2
MaxCyclesLong == 3

\* ------------------------------------------------------------- constants
Resources == {"r1", "r2"}
RANGE_OPTIONS == {"1h", "6h", "24h"}
Kinds == {"metrics", "forecast", "alerts"}

NoConfig == <<"null">>
NoError == "null"
ConfigError == "Unable to load configuration from API."
DataError == "Failed to load dashboard data."

\* resource_ids lists the configuration request may return
ConfigLists == {<< >>, <<"r2">>, <<"r1", "r2">>}
\* available_resources lists a metrics response may carry (absent = empty)
AvailLists == {<< >>, <<"r1", "r2">>}

SeqToSet(s) == {s[i] : i \in DOMAIN s}

\* ----------------------------------------------------------------- React
\* A state setter of a component that has been unmounted does nothing.
SetState(old, new) == IF mounted THEN new ELSE old

\* ------------------------------------------------------------ loadConfig
\* Variant: a built-in resource stands in for an empty list.
FirstResourceOrDefault(ids) == IF Len(ids) > 0 THEN ids[1] ELSE "r1"

\* data.resource_ids?.[0] || ""
FirstResource(ids) == IF Len(ids) > 0 THEN ids[1] ELSE ""

\* --------------------------------------------------------- the sync effect
\* let cancelled = false; ... setInterval(() => loadData(true), 30000)
NewEffect(rid, rg) ==
    [resourceId |-> rid, range |-> rg, cancelled |-> FALSE, interval |-> TRUE]

\* Variants of the cleanup that forget one of its two statements.
EffectCleanupTimerOnly(e) == [e EXCEPT !.interval = FALSE]
EffectCleanupFlagOnly(e) == [e EXCEPT !.cancelled = TRUE]

\* return () => { cancelled = true; clearInterval(interval); }
EffectCleanup(e) == [e EXCEPT !.cancelled = TRUE, !.interval = FALSE]

\* Variant: an effect that returns no cleanup function.
CleanedUpNever(effs) == effs

\* The cleanup of the effect instance of the previous render, if it has one.
CleanedUp(effs) ==
    [i \in DOMAIN effs |-> IF i = Len(effs) THEN EffectCleanup(effs[i]) ELSE effs[i]]

\* loadData's synchronous part: the three requests go out together.
NewCycle(e, silent) ==
    [effect |-> e, silent |-> silent,
     fetch |-> [k \in Kinds |-> "pending"],
     partial |-> FALSE,
     over |-> 0,
     outcome |-> "pending"]

\* Variant: the spinner is raised by every cycle, silent or not.
LoadingAtStartAlways(silent, cur) == TRUE

\* if (!silent) setLoading(true)
LoadingAtStart(silent, cur) == IF ~silent THEN TRUE ELSE cur

\* Variant: the effect without its guard.
EffectRunsAlways(rid) == TRUE

\* if (!resourceId) return;  -- otherwise a new instance and its first cycle
EffectRuns(rid) == rid # ""

\* The effect after a render that changed resourceId or range to (rid, rg).
SyncEffect(rid, rg) ==
    IF EffectRuns(rid)
    THEN /\ Len(cycles) < limit
         /\ effects' = Append(CleanedUp(effects), NewEffect(rid, rg))
         /\ cycles' = Append(cycles, NewCycle(Len(effects) + 1, FALSE))
         /\ loading' = LoadingAtStart(FALSE, loading)
    ELSE /\ effects' = CleanedUp(effects)
         /\ UNCHANGED <<cycles, loading>>

\* ------------------------------------------------------------------ Init
\* The useState initial values at mount; loadConfig's request is in flight.
Mount ==
    /\ mounted = TRUE
    /\ configReq = "pending"
    /\ config = NoConfig
    /\ resourceId = ""
    /\ range = "6h"
    /\ metrics = 0
    /\ availableResources = [cycle |-> 0, list |-> << >>]
    /\ latest = 0
    /\ forecasts = 0
    /\ alerts = 0
    /\ error = NoError
    /\ loading = TRUE
    /\ effects = << >>
    /\ cycles = << >>

\* Nothing has been rendered yet; the Settings route is not the one shown.
NotRendered == << >>
NoSettings == "not shown"
NothingRendered == props = << >> /\ rendered = NotRendered
DashboardOnly == NothingRendered /\ settings = NoSettings

Init == Mount /\ limit = MaxCycles /\ DashboardOnly
InitLong == Mount /\ limit = MaxCyclesLong /\ DashboardOnly

\* --------------------------------------------------------------- actions
\* fetchConfig() resolves with resource_ids = ids.
ConfigResolve(ids) ==
    /\ configReq = "pending"
    /\ configReq' = "ok"
    /\ IF mounted
       THEN /\ config' = ids
            /\ resourceId' = FirstResource(ids)
            /\ IF resourceId' # resourceId
               THEN SyncEffect(resourceId', range)
               ELSE UNCHANGED <<effects, cycles, loading>>
       ELSE UNCHANGED <<config, resourceId, effects, cycles, loading>>
    /\ UNCHANGED <<mounted, range, data, error, limit, outside>>

\* Variant: the catch branch only logs.
ConfigRejectSilent ==
    /\ configReq = "pending"
    /\ configReq' = "failed"
    /\ UNCHANGED <<mounted, config, resourceId, range, data, error, loading,
                   effects, cycles, limit, outside>>

\* fetchConfig() rejects (network failure, non-2xx, 8 s timeout).
ConfigReject ==
    /\ configReq = "pending"
    /\ configReq' = "failed"
    /\ error' = SetState(error, ConfigError)
    /\ UNCHANGED <<mounted, config, resourceId, range, data, loading, effects, cycles, limit, outside>>

\* Variant: loadData without the stale check.
CancelledNever(c) == FALSE

\* The closure variable `cancelled` of the effect instance cycle c runs under.
Cancelled(c) == effects[cycles[c].effect].cancelled

\* Variant: Promise.any, which resolves with the first request that resolves.
AllResolvedAny(f) == \E k \in Kinds : f[k] = "ok"

\* Promise.all resolves once each of the three requests has resolved.
AllResolved(f) == \A k \in Kinds : f[k] = "ok"

\* A cycle whose Promise.all has settled: loadData has returned and what is
\* still in flight is awaited by nobody, so the requests are tracked no
\* further.  Two fields record the moment for the properties below: `partial`,
\* whether a rejected cycle held a resolved response that it threw away, and
\* `over`, the cycle whose metrics were on screen when this one settled.
Settled(cyc, how) ==
    [cyc EXCEPT !.outcome = how,
                !.over = metrics,
                !.partial = (how \in {"failed", "failed_stale"})
                            /\ (\E k \in Kinds : cyc.fetch[k] = "ok"),
                !.fetch = [k \in Kinds |-> "closed"]]

\* Variant: the commit block without setAlerts.
ResolvedWithoutAlerts(c, cyc, av) ==
    IF Cancelled(c)
    THEN /\ cycles' = [cycles EXCEPT ![c] = Settled(cyc, "dropped")]
         /\ UNCHANGED <<data, error, loading>>
    ELSE /\ metrics' = SetState(metrics, c)
         /\ availableResources' =
                SetState(availableResources, [cycle |-> c, list |-> av])
         /\ latest' = SetState(latest, c)
         /\ forecasts' = SetState(forecasts, c)
         /\ alerts' = alerts
         /\ error' = SetState(error, NoError)
         /\ loading' = SetState(loading, FALSE)
         /\ cycles' = [cycles EXCEPT ![c] = Settled(cyc, "committed")]

\* Variant: setError(null) placed before the stale check.
ResolvedClearsErrorFirst(c, cyc, av) ==
    IF Cancelled(c)
    THEN /\ cycles' = [cycles EXCEPT ![c] = Settled(cyc, "dropped")]
         /\ error' = SetState(error, NoError)
         /\ UNCHANGED <<data, loading>>
    ELSE /\ metrics' = SetState(metrics, c)
         /\ availableResources' =
                SetState(availableResources, [cycle |-> c, list |-> av])
         /\ latest' = SetState(latest, c)
         /\ forecasts' = SetState(forecasts, c)
         /\ alerts' = SetState(alerts, c)
         /\ error' = SetState(error, NoError)
         /\ loading' = SetState(loading, FALSE)
         /\ cycles' = [cycles EXCEPT ![c] = Settled(cyc, "committed")]

\* loadData after `await Promise.all` resolved: the stale check, the commit of
\* the three responses, setError(null), and finally's setLoading(false).
Resolved(c, cyc, av) ==
    IF Cancelled(c)
    THEN /\ cycles' = [cycles EXCEPT ![c] = Settled(cyc, "dropped")]
         /\ UNCHANGED <<data, error, loading>>
    ELSE /\ metrics' = SetState(metrics, c)
         /\ availableResources' =
                SetState(availableResources, [cycle |-> c, list |-> av])
         /\ latest' = SetState(latest, c)
         /\ forecasts' = SetState(forecasts, c)
         /\ alerts' = SetState(alerts, c)
         /\ error' = SetState(error, NoError)
         /\ loading' = SetState(loading, FALSE)
         /\ cycles' = [cycles EXCEPT ![c] = Settled(cyc, "committed")]

\* Variant: a rejected cycle still commits the responses that had resolved
\* (Promise.allSettled in place of Promise.all).
RejectedKeepsResolved(c, cyc) ==
    IF Cancelled(c)
    THEN /\ cycles' = [cycles EXCEPT ![c] = Settled(cyc, "failed_stale")]
         /\ UNCHANGED <<data, error, loading>>
    ELSE /\ metrics' = IF cyc.fetch["metrics"] = "ok" THEN c ELSE metrics
         /\ latest' = IF cyc.fetch["metrics"] = "ok" THEN c ELSE latest
         /\ forecasts' = IF cyc.fetch["forecast"] = "ok" THEN c ELSE forecasts
         /\ alerts' = IF cyc.fetch["alerts"] = "ok" THEN c ELSE alerts
         /\ error' = SetState(error, DataError)
         /\ loading' = SetState(loading, FALSE)
         /\ cycles' = [cycles EXCEPT ![c] = Settled(cyc, "failed")]
         /\ UNCHANGED availableResources

\* Variant: catch and finally without their `if (!cancelled)`.
RejectedUnchecked(c, cyc) ==
    /\ error' = SetState(error, DataError)
    /\ loading' = SetState(loading, FALSE)
    /\ cycles' = [cycles EXCEPT ![c] = Settled(cyc, "failed")]
    /\ UNCHANGED data

\* loadData after `await Promise.all` rejected: catch, then finally.
Rejected(c, cyc) ==
    IF Cancelled(c)
    THEN /\ cycles' = [cycles EXCEPT ![c] = Settled(cyc, "failed_stale")]
         /\ UNCHANGED <<data, error, loading>>
    ELSE /\ error' = SetState(error, DataError)
         /\ loading' = SetState(loading, FALSE)
         /\ cycles' = [cycles EXCEPT ![c] = Settled(cyc, "failed")]
         /\ UNCHANGED data

\* Request k of cycle c resolves.  A request that completes after its cycle's
\* Promise.all has settled changes nothing and is not a step.  av is the
\* available_resources list of the cycle's metrics response: nothing reads a
\* response before Promise.all resolves, so it is drawn at that point.
FetchResolve(c, k, av) ==
    /\ c \in DOMAIN cycles
    /\ cycles[c].outcome = "pending"
    /\ cycles[c].fetch[k] = "pending"
    /\ LET cyc == [cycles[c] EXCEPT !.fetch[k] = "ok"]
       IN  IF AllResolved(cyc.fetch)
           THEN Resolved(c, cyc, av)
           ELSE /\ av = << >>
                /\ cycles' = [cycles EXCEPT ![c] = cyc]
                /\ UNCHANGED <<data, error, loading>>
    /\ UNCHANGED <<mounted, configReq, config, resourceId, range, effects, limit, outside>>

\* Request k of cycle c rejects (network failure, non-2xx, 8 s timeout);
\* Promise.all rejects with the first rejection.
FetchReject(c, k) ==
    /\ c \in DOMAIN cycles
    /\ cycles[c].outcome = "pending"
    /\ cycles[c].fetch[k] = "pending"
    /\ Rejected(c, [cycles[c] EXCEPT !.fetch[k] = "failed"])
    /\ UNCHANGED <<mounted, configReq, config, resourceId, range, effects, limit, outside>>

\* Variant: a schedule that waits for the previous cycle and stops after a
\* failed one (a setTimeout re-armed by each successful cycle).
TickAfterSuccess(e) ==
    /\ e \in DOMAIN effects
    /\ effects[e].interval
    /\ \A c \in DOMAIN cycles :
          cycles[c].effect = e => cycles[c].outcome \notin {"pending", "failed"}
    /\ Len(cycles) < limit
    /\ cycles' = Append(cycles, NewCycle(e, TRUE))
    /\ loading' = LoadingAtStart(TRUE, loading)
    /\ UNCHANGED <<mounted, configReq, config, resourceId, range, data, error, effects, limit, outside>>

\* The interval callback of effect instance e: loadData(true).
Tick(e) ==
    /\ e \in DOMAIN effects
    /\ effects[e].interval
    /\ Len(cycles) < limit
    /\ cycles' = Append(cycles, NewCycle(e, TRUE))
    /\ loading' = LoadingAtStart(TRUE, loading)
    /\ UNCHANGED <<mounted, configReq, config, resourceId, range, data, error, effects, limit, outside>>

\* The options of the resource <select>.
Options ==
    IF Len(availableResources.list) > 0
    THEN SeqToSet(availableResources.list)
    ELSE IF config = NoConfig THEN {} ELSE SeqToSet(config)

\* onChange of the <select>: setResourceId(v); the same value re-renders nothing.
SelectResource(v) ==
    /\ mounted
    /\ v \in Options
    /\ v # resourceId
    /\ resourceId' = v
    /\ SyncEffect(v, range)
    /\ UNCHANGED <<mounted, configReq, config, range, data, error, limit, outside>>

\* onClick of a range button: setRange(r).
SelectRange(r) ==
    /\ mounted
    /\ r \in RANGE_OPTIONS
    /\ r # range
    /\ range' = r
    /\ SyncEffect(resourceId, r)
    /\ UNCHANGED <<mounted, configReq, config, resourceId, data, error, limit, outside>>

\* Variant: an effect that returns no cleanup.
UnmountWithoutCleanup ==
    /\ mounted
    /\ mounted' = FALSE
    /\ UNCHANGED <<configReq, config, resourceId, range, data, error, loading,
                   effects, cycles, limit, outside>>

\* The view is torn down: the cleanup of the last effect instance runs.
Unmount ==
    /\ mounted
    /\ mounted' = FALSE
    /\ effects' = CleanedUp(effects)
    /\ UNCHANGED <<configReq, config, resourceId, range, data, error, loading, cycles, limit, outside>>

Next ==
    \/ \E ids \in ConfigLists : ConfigResolve(ids)
    \/ ConfigReject
    \/ \E c \in DOMAIN cycles, k \in Kinds, av \in AvailLists : FetchResolve(c, k, av)
    \/ \E c \in DOMAIN cycles, k \in Kinds : FetchReject(c, k)
    \/ \E e \in DOMAIN effects : Tick(e)
    \/ \E v \in Resources : SelectResource(v)
    \/ \E r \in RANGE_OPTIONS : SelectRange(r)
    \/ Unmount

Spec == Init /\ [][Next]_vars
SpecLong == InitLong /\ [][Next]_vars

\* ============================================================ rendering
\* The derivations the components compute from their state or props on each
\* render.  Each is followed on its own: props holds the argument, rendered
\* the value returned, and the synchronisation state stays as mounted.
dashboard == <<mounted, configReq, config, resourceId, range, data, error,
               loading, effects, cycles, limit>>
Unstarted == Mount /\ limit = 0

SeqsUpTo(S, n) == UNION {[1..k -> S] : k \in 0..n}

\* A field of a JSON object: << >> when it is undefined or null, <<v>> else.
Absent == << >>
Some(v) == <<v>>
\* a ?? b
Coalesce(a, b) == IF a = Absent THEN b ELSE a[1]

\* ------------------------------------------- Dashboard.jsx: the three series
\* Longest metrics list followed.
MaxSamples == 2
MetricSamples ==
    [timestamp : {1, 2},
     cpu_pct : {Absent, Some(40)},
     mem_pct : {Absent, Some(60)},
     net_in_kbps : {Absent, Some(3)},
     net_out_kbps : {Absent, Some(5)}]

cpuSeries(m) ==
    [i \in DOMAIN m |->
        [timestamp |-> m[i].timestamp, value |-> Coalesce(m[i].cpu_pct, 0)]]
memSeries(m) ==
    [i \in DOMAIN m |->
        [timestamp |-> m[i].timestamp, value |-> Coalesce(m[i].mem_pct, 0)]]
\* Variant: only the inbound rate is charted.
netSeriesInboundOnly(m) ==
    [i \in DOMAIN m |->
        [timestamp |-> m[i].timestamp, value |-> Coalesce(m[i].net_in_kbps, 0)]]
netSeries(m) ==
    [i \in DOMAIN m |->
        [timestamp |-> m[i].timestamp,
         value |-> Coalesce(m[i].net_in_kbps, 0) + Coalesce(m[i].net_out_kbps, 0)]]

InitSeries ==
    /\ Unstarted
    /\ settings = NoSettings
    /\ props \in SeqsUpTo(MetricSamples, MaxSamples)
    /\ rendered = NotRendered

\* A render of Dashboard with metrics = props.
DeriveSeries ==
    /\ rendered = NotRendered
    /\ rendered' = <<[cpu |-> cpuSeries(props),
                      mem |-> memSeries(props),
                      net |-> netSeries(props)]>>
    /\ UNCHANGED <<dashboard, props, settings>>

NextSeries == DeriveSeries
SpecSeries == InitSeries /\ [][NextSeries]_vars

\* ------------------------------------------------ Dashboard.jsx: computeTrend
\* Values are IEEE doubles.  The values followed are multiples of 1/4, which
\* are exact in binary, so that the subtraction is exact too: the integer q
\* stands for q/4.
\* Longest series followed.
MaxPoints == 3
\* 10.0, 10.25, 10.5, 10.75, 12.0 and 7.5
TrendValues == {40, 41, 42, 43, 48, 30}
TrendPoints == [timestamp : {1, 2}, value : TrendValues]
\* 0.5
Band == 2

Abs(x) == IF x < 0 THEN 0 - x ELSE x
\* x.toFixed(1) for x = q/4 >= 0: the tenths nearest to x, the larger of the
\* two when x is halfway between them, written with one decimal.
toFixed1(q) ==
    LET tenths == (5 * q + 1) \div 2
    IN  ToString(tenths \div 10) \o "." \o ToString(tenths % 10)

\* Variant: a change of exactly 0.5 still counts as steady.
computeTrendInclusive(series) ==
    IF Len(series) < 2 THEN Absent
    ELSE LET penultimate == series[Len(series) - 1].value
             latestValue == series[Len(series)].value
             delta == latestValue - penultimate
         IN  IF Abs(delta) <= Band THEN Some("Holding steady")
             ELSE IF delta > 0
                  THEN Some("Up " \o toFixed1(delta) \o " (last sample)")
                  ELSE Some("Down " \o toFixed1(Abs(delta)) \o " (last sample)")
computeTrend(series) ==
    IF Len(series) < 2 THEN Absent
    ELSE LET penultimate == series[Len(series) - 1].value
             latestValue == series[Len(series)].value
             delta == latestValue - penultimate
         IN  IF Abs(delta) < Band THEN Some("Holding steady")
             ELSE IF delta > 0
                  THEN Some("Up " \o toFixed1(delta) \o " (last sample)")
                  ELSE Some("Down " \o toFixed1(Abs(delta)) \o " (last sample)")

InitTrend ==
    /\ Unstarted
    /\ settings = NoSettings
    /\ props \in SeqsUpTo(TrendPoints, MaxPoints)
    /\ rendered = NotRendered

\* trend={computeTrend(series)} with series = props.
ClassifyTrend ==
    /\ rendered = NotRendered
    /\ rendered' = <<computeTrend(props)>>
    /\ UNCHANGED <<dashboard, props, settings>>

NextTrend == ClassifyTrend
SpecTrend == InitTrend /\ [][NextTrend]_vars

\* ------------------------------------------ components/ForecastCard.jsx
\* Longest forecast list followed when ranking, and when labelling.
MaxForecasts == 4
MaxLabelled == 2
\* Breach times are instants (new Date(...) of an ISO string), here 1..3;
\* null is Absent.  No confidence is attached to the forecasts ranked.
RankedForecasts ==
    [metric : {"cpu", "mem"},
     predicted_breach_time : {Absent, Some(1), Some(2), Some(3)},
     confidence : {Absent}]
\* Confidences are doubles; the ones followed are multiples of 1/8, exact in
\* binary: the integer c stands for c/8 (-0.25, 0, 0.125, 0.5, 1, 1.375).
LabelledForecasts ==
    [metric : {"cpu"},
     predicted_breach_time : {Absent, Some(1)},
     confidence : {Absent, Some(0 - 2), Some(0), Some(1), Some(4), Some(8), Some(11)}]
\* 1, in eighths
One == 8
\* slice(0, 3)
Shown == 3

Min(a, b) == IF a < b THEN a ELSE b
Max(a, b) == IF a > b THEN a ELSE b

\* forecasts.filter((item) => item.predicted_breach_time): a new array.
RECURSIVE Upcoming(_)
Upcoming(fs) ==
    IF fs = << >> THEN << >>
    ELSE LET rest == Upcoming(Tail(fs))
         IN  IF Head(fs).predicted_breach_time # Absent
             THEN <<Head(fs)>> \o rest
             ELSE rest

\* Variant: an insertion that puts an item before those of equal time.
SortedInsertBeforeEqual(s, x) ==
    LET k == Cardinality({i \in DOMAIN s :
                 s[i].predicted_breach_time[1] < x.predicted_breach_time[1]})
    IN  SubSeq(s, 1, k) \o <<x>> \o SubSeq(s, k + 1, Len(s))
\* Array.prototype.sort is stable: x goes after every item the comparator
\* does not place after it (a - b <= 0).
SortedInsert(s, x) ==
    LET k == Cardinality({i \in DOMAIN s :
                 s[i].predicted_breach_time[1] <= x.predicted_breach_time[1]})
    IN  SubSeq(s, 1, k) \o <<x>> \o SubSeq(s, k + 1, Len(s))
RECURSIVE SortByBreachTime(_)
SortByBreachTime(s) ==
    IF s = << >> THEN << >>
    ELSE SortedInsert(SortByBreachTime(SubSeq(s, 1, Len(s) - 1)), s[Len(s)])

\* Variant: the raw confidence is shown.
ConfidenceLabelUnclamped(confidence) ==
    IF confidence # Absent
    THEN ToString((25 * confidence[1] + 1) \div 2) \o "%"
    ELSE "n/a"
\* confidenceValue, then (confidenceValue * 100).toFixed(0) + "%" or "n/a";
\* toFixed(0) of 12.5 c: the nearest integer, the larger one on a tie.
ConfidenceLabel(confidence) ==
    IF confidence # Absent
    THEN LET confidenceValue == Min(One, Max(0, confidence[1]))
         IN  ToString((25 * confidenceValue + 1) \div 2) \o "%"
    ELSE "n/a"

ForecastRow(item) == [item |-> item, confidence |-> ConfidenceLabel(item.confidence)]

\* Variant: no branch on an empty list.
ForecastCardListOnly(fs) ==
    LET upcoming == SortByBreachTime(Upcoming(fs))
    IN  [variant |-> "list",
         rows |-> [j \in 1..Min(Shown, Len(upcoming)) |-> ForecastRow(upcoming[j])]]
ForecastCard(fs) ==
    LET upcoming == SortByBreachTime(Upcoming(fs))
    IN  IF Len(upcoming) = 0
        THEN [variant |-> "All clear", rows |-> << >>]
        ELSE [variant |-> "list",
              rows |-> [j \in 1..Min(Shown, Len(upcoming)) |-> ForecastRow(upcoming[j])]]

InitForecast ==
    /\ Unstarted
    /\ settings = NoSettings
    /\ props \in SeqsUpTo(RankedForecasts, MaxForecasts)
    /\ rendered = NotRendered
InitConfidence ==
    /\ Unstarted
    /\ settings = NoSettings
    /\ props \in SeqsUpTo(LabelledForecasts, MaxLabelled)
    /\ rendered = NotRendered

\* <ForecastCard forecasts={props} />: the prop itself is not written.
RenderForecastCard ==
    /\ rendered = NotRendered
    /\ rendered' = <<ForecastCard(props)>>
    /\ UNCHANGED <<dashboard, props, settings>>

NextForecast == RenderForecastCard
SpecForecast == InitForecast /\ [][NextForecast]_vars
SpecConfidence == InitConfidence /\ [][NextForecast]_vars

\* ---------------------------------------------- components/AlertList.jsx
\* Longest alert list followed; ids are unique within a response.
MaxAlerts == 3
AlertRecords ==
    [id : 1..MaxAlerts, metric : {"cpu", "mem"}, created_at : {1, 2}]
AlertLists ==
    {as \in SeqsUpTo(AlertRecords, MaxAlerts) :
        \A i, j \in DOMAIN as : as[i].id = as[j].id => i = j}

\* alert.metric.toUpperCase()
toUpperCase(s) == IF s = "cpu" THEN "CPU" ELSE IF s = "mem" THEN "MEM" ELSE s
\* One <tr>: its key, and the cells that depend on the record.
AlertRow(alert) ==
    [key |-> alert.id,
     timestamp |-> alert.created_at,
     metric |-> toUpperCase(alert.metric)]

\* Variant: the rows are listed last record first.
AlertListReversed(as) ==
    IF Len(as) = 0
    THEN [variant |-> "No alerts recorded yet.", rows |-> << >>]
    ELSE [variant |-> "table",
          rows |-> [i \in DOMAIN as |-> AlertRow(as[Len(as) + 1 - i])]]
AlertList(as) ==
    IF Len(as) = 0
    THEN [variant |-> "No alerts recorded yet.", rows |-> << >>]
    ELSE [variant |-> "table", rows |-> [i \in DOMAIN as |-> AlertRow(as[i])]]

InitAlerts ==
    /\ Unstarted
    /\ settings = NoSettings
    /\ props \in AlertLists
    /\ rendered = NotRendered

\* <AlertList alerts={props} />
RenderAlertList ==
    /\ rendered = NotRendered
    /\ rendered' = <<AlertList(props)>>
    /\ UNCHANGED <<dashboard, props, settings>>

NextAlerts == RenderAlertList
SpecAlerts == InitAlerts /\ [][NextAlerts]_vars

\* ============================================================= Settings
\* pages/Settings.jsx, the route /settings.  The router renders one page at
\* a time: the Dashboard has been unmounted, its configuration request may
\* still be in flight, and its state is what it left behind.
ChannelLists == {<< >>, <<"slack">>, <<"email">>, <<"slack", "email">>}
SettingsConfigError == [type |-> "error", message |-> "Failed to load configuration."]
TestAlertError ==
    [type |-> "error", message |-> "Unable to send test alert. Check server logs."]

\* channels.join(", ")
RECURSIVE Join(_)
Join(channels) ==
    IF channels = << >> THEN ""
    ELSE IF Len(channels) = 1 THEN channels[1]
    ELSE channels[1] \o ", " \o Join(Tail(channels))
TestAlertSuccess(channels) ==
    [type |-> "success", message |-> "Test alert triggered via: " \o Join(channels)]

\* A state setter of Settings: no effect once the page is unmounted.
SetSettings(field, new) == IF settings.mounted THEN new ELSE settings[field]

InitSettings ==
    /\ mounted = FALSE
    /\ configReq = "pending"
    /\ config = NoConfig
    /\ resourceId = ""
    /\ range = "6h"
    /\ metrics = 0
    /\ availableResources = [cycle |-> 0, list |-> << >>]
    /\ latest = 0
    /\ forecasts = 0
    /\ alerts = 0
    /\ error = NoError
    /\ loading = TRUE
    /\ effects = << >>
    /\ cycles = << >>
    /\ limit = 0
    /\ NothingRendered
    /\ settings = [mounted |-> TRUE,
                   configReq |-> "pending",   \* loadConfig: pending, ok, failed
                   config |-> Absent,         \* useState(null)
                   status |-> Absent,         \* useState(null)
                   loading |-> FALSE,         \* useState(false)
                   alertReq |-> "none"]       \* handleTestAlert: none, pending, ok, failed

\* fetchConfig() of Settings resolves; channels = data.available_alert_channels.
SettingsConfigResolve(channels) ==
    /\ settings.configReq = "pending"
    /\ settings' = [settings EXCEPT !.configReq = "ok",
                                    !.config = SetSettings("config", Some(channels))]
    /\ UNCHANGED <<dashboard, props, rendered>>

\* fetchConfig() of Settings rejects.
SettingsConfigReject ==
    /\ settings.configReq = "pending"
    /\ settings' = [settings EXCEPT !.configReq = "failed",
                                    !.status = SetSettings("status", Some(SettingsConfigError))]
    /\ UNCHANGED <<dashboard, props, rendered>>

\* Click on "Send Test Alert" (disabled={loading}): handleTestAlert up to its await.
handleTestAlert ==
    /\ settings.mounted
    /\ ~settings.loading
    /\ settings' = [settings EXCEPT !.loading = TRUE,
                                    !.status = Absent,
                                    !.alertReq = "pending"]
    /\ UNCHANGED <<dashboard, props, rendered>>

\* triggerTestAlert() resolves: the rest of try, then finally.
TestAlertResolve(channels) ==
    /\ settings.alertReq = "pending"
    /\ settings' = [settings EXCEPT !.alertReq = "ok",
                                    !.status = SetSettings("status", Some(TestAlertSuccess(channels))),
                                    !.loading = SetSettings("loading", FALSE)]
    /\ UNCHANGED <<dashboard, props, rendered>>

\* Variant: no finally block.
TestAlertRejectNoFinally ==
    /\ settings.alertReq = "pending"
    /\ settings' = [settings EXCEPT !.alertReq = "failed",
                                    !.status = SetSettings("status", Some(TestAlertError))]
    /\ UNCHANGED <<dashboard, props, rendered>>
\* triggerTestAlert() rejects (network failure, non-2xx, 8 s timeout):
\* catch, then finally.
TestAlertReject ==
    /\ settings.alertReq = "pending"
    /\ settings' = [settings EXCEPT !.alertReq = "failed",
                                    !.status = SetSettings("status", Some(TestAlertError)),
                                    !.loading = SetSettings("loading", FALSE)]
    /\ UNCHANGED <<dashboard, props, rendered>>

\* Navigation away from /settings.
SettingsUnmount ==
    /\ settings.mounted
    /\ settings' = [settings EXCEPT !.mounted = FALSE]
    /\ UNCHANGED <<dashboard, props, rendered>>

NextSettings ==
    \/ \E channels \in ChannelLists : SettingsConfigResolve(channels)
    \/ SettingsConfigReject
    \/ handleTestAlert
    \/ \E channels \in ChannelLists : TestAlertResolve(channels)
    \/ TestAlertReject
    \/ SettingsUnmount
    \/ \E ids \in ConfigLists : ConfigResolve(ids)
    \/ ConfigReject
SpecSettings == InitSettings /\ [][NextSettings]_vars

\* ============================================================ properties
EffectOf(c) == cycles[c].effect
Pending(c) == cycles[c].outcome = "pending"
\* Cycle c's Promise.all settles in this step.
SettlesNow(c) == Pending(c) /\ cycles'[c].outcome # "pending"
\* Cycle c was issued by an effect instance older than the present one, that
\* is, under a (resourceId, range) the user has changed since.
Superseded(c) == EffectOf(c) < Len(effects)
\* The cycles the five synchronized fields were taken from.
Sources == {metrics, availableResources.cycle, latest, forecasts, alerts}
AllSettled == \A c \in DOMAIN cycles : ~Pending(c)
MaxOf(S) == CHOOSE m \in S : \A n \in S : n <= m

\* C1: a cycle issued under a parameter set that has since been superseded
\* writes no synchronized field when it settles, whatever has committed in
\* the meantime; a step that does write them is the commit of a cycle issued
\* under the parameters selected now.
C1_SupersededCycleNeverWrites ==
    [][\A c \in DOMAIN cycles :
          /\ (SettlesNow(c) /\ Superseded(c)) =>
                 /\ data' = data
                 /\ cycles'[c].outcome \in {"dropped", "failed_stale"}
          /\ (SettlesNow(c) /\ data' # data) =>
                 /\ effects[EffectOf(c)].resourceId = resourceId
                 /\ effects[EffectOf(c)].range = range]_vars

\* C1 witness: a superseded cycle whose three fetches resolved was dropped
\* while the snapshot of a newer cycle was on screen, and that snapshot stays.
C1_Witness ==
    \E c1, c2 \in DOMAIN cycles :
        /\ Superseded(c1)
        /\ cycles[c1].outcome = "dropped"
        /\ EffectOf(c2) > EffectOf(c1)
        /\ cycles[c2].outcome = "committed"
        /\ cycles[c1].over = c2
        /\ Sources = {c2}

\* C2: of two periodic cycles of one effect instance that overlap, the
\* earlier-started one does not commit once the later-started one has: its
\* late result is dropped and the snapshot stays.
C2_EarlierOverlappingCycleDropped ==
    [][\A c1, c2 \in DOMAIN cycles :
          (/\ c1 < c2
           /\ EffectOf(c1) = EffectOf(c2)
           /\ cycles[c1].silent /\ cycles[c2].silent
           /\ cycles[c2].outcome = "committed"
           /\ SettlesNow(c1))
          => (cycles'[c1].outcome # "committed" /\ data' = data)]_vars

\* C3 as stated: once every cycle has settled, the snapshot is the result of
\* a cycle of the most recent parameter set one of whose cycles had all three
\* fetches succeed.
C3_SnapshotOfLatestSucceeded ==
    (mounted /\ AllSettled) =>
        LET S == {EffectOf(c) : c \in {d \in DOMAIN cycles :
                        cycles[d].outcome \in {"committed", "dropped"}}}
        IN  S # {} => (metrics # 0 /\ EffectOf(metrics) = MaxOf(S))

\* C3 amended: once every cycle has settled, the snapshot is the result of a
\* cycle of the most recent parameter set one of whose cycles had all three
\* fetches succeed while that parameter set was still the selected one (the
\* initial empty snapshot if there is none), never of an earlier one.
C3_SnapshotOfLatestSucceededWhileCurrent ==
    (mounted /\ AllSettled) =>
        LET S == {EffectOf(c) : c \in {d \in DOMAIN cycles :
                        cycles[d].outcome = "committed"}}
        IN  IF S = {} THEN Sources = {0}
            ELSE metrics # 0 /\ EffectOf(metrics) = MaxOf(S)

\* C3 witness: after a parameter change everything has settled, the old
\* parameters' cycle succeeded too late and the snapshot is the new ones'.
C3_Witness ==
    /\ mounted /\ AllSettled
    /\ \E c1, c2 \in DOMAIN cycles :
        /\ EffectOf(c1) < EffectOf(c2)
        /\ cycles[c1].outcome = "dropped"
        /\ cycles[c2].outcome = "committed"
        /\ metrics = c2

\* C4: a cycle one of whose fetches fails changes no synchronized data field
\* and no parameter; it sets the error flag if it is still current, and the
\* responses that had resolved are thrown away.
C4_FailedCycleKeepsData ==
    [][\A c \in DOMAIN cycles :
          (SettlesNow(c) /\ cycles'[c].outcome \notin {"committed", "dropped"}) =>
              /\ data' = data
              /\ UNCHANGED <<config, resourceId, range>>
              /\ (cycles'[c].outcome = "failed") => (error' = DataError)
              /\ error' \in {error, DataError}]_vars

\* C4 witness: a cycle failed holding a resolved response, the error flag is
\* up, and the fields still show the cycle committed before it.
C4_Witness ==
    \E c \in DOMAIN cycles :
        /\ cycles[c].outcome = "failed"
        /\ cycles[c].partial
        /\ error = DataError
        /\ metrics # 0 /\ metrics # c
        /\ Sources = {metrics}

\* C5: in every state the five synchronized fields come from one and the
\* same cycle, or all still hold their initial values.
C5_AtomicSnapshot ==
    /\ metrics = latest
    /\ metrics = forecasts
    /\ metrics = alerts
    /\ metrics = availableResources.cycle
    /\ (metrics = 0 => availableResources.list = << >>)

\* C5 witness: a second commit has replaced a first one.
C5_Witness ==
    \E c1, c2 \in DOMAIN cycles :
        /\ c1 # c2
        /\ cycles[c1].outcome = "committed"
        /\ cycles[c2].outcome = "committed"
        /\ cycles[c2].over = c1
        /\ Sources = {c2}

\* C6: the error flag a failed cycle has set goes down only in the step in
\* which a cycle issued under the parameters selected now commits, and that
\* step replaces the five data fields by that cycle's responses.
C6_ErrorUntilCommit ==
    [][(error = DataError /\ error' # DataError) =>
          \E c \in DOMAIN cycles :
              /\ SettlesNow(c)
              /\ ~Superseded(c)
              /\ cycles'[c].outcome = "committed"
              /\ error' = NoError
              /\ metrics' = c /\ latest' = c /\ forecasts' = c /\ alerts' = c
              /\ availableResources'.cycle = c]_vars

\* C6 witness: the first cycle failed, the parameters were changed, and the
\* new parameters' cycle committed and took the flag down.
C6_Witness ==
    /\ Len(cycles) = 2
    /\ cycles[1].outcome = "failed"
    /\ cycles[2].outcome = "committed"
    /\ EffectOf(2) > EffectOf(1)
    /\ error = NoError
    /\ metrics = 2

\* C7: the loading flag goes up only in a step that starts the non-silent
\* first cycle of a new effect instance; a step that starts a silent cycle
\* leaves the flag as it is.
C7_LoadingRaisedOnlyByFirstCycle ==
    [][/\ (~loading /\ loading') =>
              /\ Len(cycles') = Len(cycles) + 1
              /\ ~cycles'[Len(cycles')].silent
              /\ Len(effects') = Len(effects) + 1
              /\ cycles'[Len(cycles')].effect = Len(effects')
       /\ (Len(cycles') > Len(cycles) /\ cycles'[Len(cycles')].silent) =>
              loading' = loading]_vars

\* C7 witness: the flag is up again for the first cycle of new parameters,
\* after a cycle of the old ones had settled and taken it down.
C7_Witness ==
    /\ Len(cycles) = 2
    /\ cycles[1].outcome \in {"committed", "failed"}
    /\ EffectOf(2) > EffectOf(1)
    /\ ~cycles[2].silent
    /\ Pending(2)
    /\ loading

\* What a parameter change has to do in its own step: every cycle issued so
\* far is invalidated, one non-silent cycle is issued under the new
\* parameters, every old timer is cleared and a new one is armed.
Restarts ==
    /\ \A c \in DOMAIN cycles : effects'[EffectOf(c)].cancelled
    /\ \A e \in DOMAIN effects : ~effects'[e].interval
    /\ Len(effects') = Len(effects) + 1
    /\ effects'[Len(effects')] =
           [resourceId |-> resourceId', range |-> range',
            cancelled |-> FALSE, interval |-> TRUE]
    /\ Len(cycles') = Len(cycles) + 1
    /\ cycles'[Len(cycles')].effect = Len(effects')
    /\ ~cycles'[Len(cycles')].silent
    /\ \A c \in DOMAIN cycles : cycles'[c] = cycles[c]

\* C8 as stated: every change of resource id (to a non-empty value) or of
\* range, from any state, restarts the synchronisation in one transition.
C8_EveryChangeRestarts ==
    [][((resourceId' # resourceId /\ resourceId' # "") \/ range' # range)
          => Restarts]_vars

\* C8 amended: every change of resource id (to a non-empty value), and every
\* change of range made while the resource id is non-empty, restarts the
\* synchronisation in one transition.
C8_ChangeWithResourceRestarts ==
    [][(resourceId' # "" /\ (resourceId' # resourceId \/ range' # range))
          => Restarts]_vars

\* C8 witness: a change was made while a cycle was in flight: that cycle is
\* invalidated and its timer cleared, the new cycle is in flight, its timer
\* armed.
C8_Witness ==
    /\ Len(effects) = 2
    /\ Len(cycles) = 2
    /\ Pending(1) /\ Pending(2)
    /\ EffectOf(1) = 1 /\ EffectOf(2) = 2
    /\ effects[1].cancelled /\ ~effects[1].interval
    /\ ~effects[2].cancelled /\ effects[2].interval
    /\ ~cycles[2].silent

\* C9: once the view is torn down no timer is armed, no cycle starts, and the
\* cycles still in flight settle as stale: no data field, error flag or
\* loading flag changes.
C9_NothingAfterTeardown ==
    [][~mounted' =>
          /\ \A e \in DOMAIN effects' : ~effects'[e].interval
          /\ ~mounted =>
                /\ Len(cycles') = Len(cycles)
                /\ data' = data /\ error' = error /\ loading' = loading
                /\ \A c \in DOMAIN cycles :
                       SettlesNow(c) =>
                           cycles'[c].outcome \in {"dropped", "failed_stale"}]_vars

\* C9 witness: torn down with two cycles of the present parameters in flight;
\* one resolved, one was rejected, and both went by without a write.
C9_Witness ==
    /\ ~mounted
    /\ \E c1, c2 \in DOMAIN cycles :
        /\ ~Superseded(c1) /\ ~Superseded(c2)
        /\ cycles[c1].outcome = "dropped"
        /\ cycles[c2].outcome = "failed_stale"
        /\ loading
        /\ error = NoError

\* C10: no cycle exists before the configuration request has succeeded, none
\* while the resource id is empty, and the first cycle is issued for the
\* first entry of the configuration's resource_ids.
C10_ConfigBeforeFirstCycle ==
    /\ (resourceId = "" \/ configReq # "ok") => (cycles = << >> /\ effects = << >>)
    /\ cycles # << >> =>
           /\ config # NoConfig
           /\ Len(config) > 0
           /\ EffectOf(1) = 1
           /\ effects[1].resourceId = config[1]
           /\ ~cycles[1].silent

\* C10 witness: the first cycle is in flight for the first of two configured
\* resources.
C10_Witness ==
    /\ Len(config) = 2
    /\ config # NoConfig
    /\ cycles # << >>
    /\ effects[1].resourceId = config[1]
    /\ resourceId = config[1]

\* C11: when the configuration request fails the error is published, and from
\* then on the request is never issued again, the resource id stays empty, no
\* effect instance or cycle is created, and the error flag keeps its value.
C11_ConfigFailurePersists ==
    [][/\ (mounted /\ configReq = "pending" /\ configReq' = "failed") =>
              error' = ConfigError
       /\ configReq = "failed" =>
              /\ configReq' = "failed"
              /\ error' = error
              /\ resourceId' = "" /\ config' = NoConfig
              /\ cycles' = << >> /\ effects' = << >>]_vars

\* C11 witness: the request failed, the user has since clicked a range
\* button, and the error is still shown with nothing started.
C11_Witness ==
    /\ mounted
    /\ configReq = "failed"
    /\ error = ConfigError
    /\ range # "6h"
    /\ cycles = << >>

\* C12: the three series have the input's length and order (position i
\* carries sample i's timestamp), cpu and mem carry the sample's field, net
\* the sum of the two rates, an absent field counting as 0; the derivation
\* is defined for every input.
C12_SeriesMatchSamples ==
    rendered # NotRendered =>
        /\ \A k \in {"cpu", "mem", "net"} :
              /\ Len(rendered[1][k]) = Len(props)
              /\ \A i \in DOMAIN props : rendered[1][k][i].timestamp = props[i].timestamp
        /\ \A i \in DOMAIN props :
              LET s == props[i]
                  or0(f) == IF f = << >> THEN 0 ELSE f[1]
              IN  /\ rendered[1].cpu[i].value = or0(s.cpu_pct)
                  /\ rendered[1].mem[i].value = or0(s.mem_pct)
                  /\ rendered[1].net[i].value = or0(s.net_in_kbps) + or0(s.net_out_kbps)
                  /\ (s.cpu_pct = << >> /\ s.mem_pct = << >> /\
                      s.net_in_kbps = << >> /\ s.net_out_kbps = << >>) =>
                         /\ rendered[1].cpu[i].value = 0
                         /\ rendered[1].mem[i].value = 0
                         /\ rendered[1].net[i].value = 0

\* C12 witness: two samples out of timestamp order, the first with every
\* optional field absent, the second with both rates present, were derived.
C12_Witness ==
    /\ rendered # NotRendered
    /\ Len(props) = 2
    /\ props[1].timestamp > props[2].timestamp
    /\ props[1].cpu_pct = << >> /\ props[1].mem_pct = << >>
    /\ props[1].net_in_kbps = << >> /\ props[1].net_out_kbps = << >>
    /\ props[2].net_in_kbps # << >> /\ props[2].net_out_kbps # << >>
    /\ rendered[1].net[2].value = 8

\* C13: fewer than two points give null.  Otherwise, with delta the last
\* value minus the one before it (in quarters: 0.5 is 2), the label is
\* "Holding steady" exactly when |delta| < 0.5, "Up" with delta when
\* delta >= 0.5 and "Down" with |delta| when delta <= -0.5, the magnitude
\* written as the tenths t nearest to it (|10 |delta| - t| <= 1/2) with one
\* decimal; the label is the one of the last two points alone.
C13_TrendLabel ==
    rendered # NotRendered =>
        LET n == Len(props)
            r == rendered[1]
        IN  IF n < 2 THEN r = << >>
            ELSE LET d == props[n].value - props[n - 1].value
                     m == IF d < 0 THEN 0 - d ELSE d
                     shown(word) ==
                         \E t \in 0..1000 :
                            /\ 5 * m - 2 * t \in {-1, 0, 1}
                            /\ r = <<word \o " " \o ToString(t \div 10) \o "."
                                     \o ToString(t % 10) \o " (last sample)">>
                 IN  /\ (r = <<"Holding steady">>) <=> (m < 2)
                     /\ d >= 2 => shown("Up")
                     /\ d <= 0 - 2 => shown("Down")
                     /\ r = computeTrend(SubSeq(props, n - 1, n))

\* C13 witness: a three-point series falling from 10.0 to 7.5 at its end,
\* after an unrelated first point, was labelled "Down 2.5".
C13_Witness ==
    /\ Len(props) = 3
    /\ props[1].value = 48 /\ props[2].value = 40 /\ props[3].value = 30
    /\ rendered = <<(<<"Down 2.5 (last sample)">>)>>

\* C14: a render shows the first three (or all, if fewer) of the forecasts
\* with a breach time, in ascending order of breach time, those of equal
\* time in their order in the input: row j is the forecast that exactly
\* j - 1 others precede in (breach time, input position).  The forecast list
\* passed in is left as it was.
C14_TopThreeStableByBreachTime ==
    [][(rendered = << >> /\ rendered' # << >>) =>
          LET withTime == {i \in DOMAIN props : props[i].predicted_breach_time # << >>}
              at(i) == props[i].predicted_breach_time[1]
              Precedes(h, i) == at(h) < at(i) \/ (at(h) = at(i) /\ h < i)
              rows == rendered'[1].rows
          IN  /\ props' = props
              /\ Len(rows) = IF Cardinality(withTime) < 3
                             THEN Cardinality(withTime) ELSE 3
              /\ \A j \in DOMAIN rows :
                    \E i \in withTime :
                       /\ rows[j].item = props[i]
                       /\ Cardinality({h \in withTime : Precedes(h, i)}) = j - 1]_vars

\* C14 witness: four forecasts with breach times 3, 1, 1, 2, the two of time
\* 1 differing in metric, were rendered as the two of time 1 in input order
\* followed by the one of time 2.
C14_Witness ==
    /\ Len(props) = 4
    /\ props[1].predicted_breach_time = <<3>>
    /\ props[2].predicted_breach_time = <<1>> /\ props[2].metric = "mem"
    /\ props[3].predicted_breach_time = <<1>> /\ props[3].metric = "cpu"
    /\ props[4].predicted_breach_time = <<2>>
    /\ rendered # << >>
    /\ Len(rendered[1].rows) = 3
    /\ rendered[1].rows[1].item = props[2]
    /\ rendered[1].rows[2].item = props[3]
    /\ rendered[1].rows[3].item = props[4]

\* C15: the card is the "All clear" variant exactly when no forecast passed
\* in has a breach time (the empty list included); otherwise it is a list
\* of at least one row.
C15_AllClearIffNoBreachTime ==
    rendered # << >> =>
        LET none == \A i \in DOMAIN props : props[i].predicted_breach_time = << >>
        IN  /\ (rendered[1].variant = "All clear") <=> none
            /\ ~none => /\ rendered[1].variant = "list"
                        /\ Len(rendered[1].rows) >= 1

\* C15 witness: two forecasts, neither with a breach time, gave "All clear".
C15_Witness ==
    /\ Len(props) = 2
    /\ \A i \in DOMAIN props : props[i].predicted_breach_time = << >>
    /\ rendered # << >>
    /\ rendered[1].variant = "All clear"

\* C16: every row shows a present confidence c (in eighths) as the whole
\* percentage p nearest to 100 * min(1, max(0, c)), so 100% for c >= 1 and
\* 0% for c <= 0, and shows an absent confidence as "n/a".
C16_ConfidenceClampedOrNotAvailable ==
    rendered # << >> =>
        \A j \in DOMAIN rendered[1].rows :
            LET row == rendered[1].rows[j]
                c == row.item.confidence
            IN  IF c = << >>
                THEN row.confidence = "n/a"
                ELSE LET clamped == IF c[1] > 8 THEN 8 ELSE IF c[1] < 0 THEN 0 ELSE c[1]
                     IN  /\ \E p \in 0..100 :
                               /\ 25 * clamped - 2 * p \in {-1, 0, 1}
                               /\ row.confidence = ToString(p) \o "%"
                         /\ c[1] >= 8 => row.confidence = "100%"
                         /\ c[1] <= 0 => row.confidence = "0%"

\* C16 witness: a card with a forecast of confidence 1.375 shown as 100% and
\* one without confidence shown as n/a.
C16_Witness ==
    /\ rendered # << >>
    /\ Len(rendered[1].rows) = 2
    /\ \E j, k \in DOMAIN rendered[1].rows :
          /\ rendered[1].rows[j].item.confidence = <<11>>
          /\ rendered[1].rows[j].confidence = "100%"
          /\ rendered[1].rows[k].item.confidence = << >>
          /\ rendered[1].rows[k].confidence = "n/a"

\* C17: the alert table has one row per record, in the records' order (row
\* i is record i: its id, its timestamp, its metric in upper case), whatever
\* the order of their timestamps and however alike two records are; the
\* empty-state panel is shown exactly for the empty list.
C17_RowsMirrorAlerts ==
    rendered # << >> =>
        /\ (rendered[1].variant = "No alerts recorded yet.") <=> (props = << >>)
        /\ props # << >> => rendered[1].variant = "table"
        /\ Len(rendered[1].rows) = Len(props)
        /\ \A i \in DOMAIN props :
              /\ rendered[1].rows[i].key = props[i].id
              /\ rendered[1].rows[i].timestamp = props[i].created_at
              /\ rendered[1].rows[i].metric \in
                    {IF props[i].metric = "cpu" THEN "CPU" ELSE "MEM"}

\* C17 witness: three records, oldest first, the last two alike in all but
\* their id, were rendered as three rows in that order.
C17_Witness ==
    /\ Len(props) = 3
    /\ props[1].created_at < props[2].created_at
    /\ props[2].created_at = props[3].created_at
    /\ props[2].metric = props[3].metric
    /\ props[1].id = 3 /\ props[2].id = 1 /\ props[3].id = 2
    /\ rendered # << >>
    /\ Len(rendered[1].rows) = 3
    /\ rendered[1].rows[1].key = 3

\* C18: when a test alert fails on the mounted Settings page, the status
\* becomes the test-alert error message, the sending flag is false again
\* (as it is after a test alert that succeeded), and the configuration the
\* page loaded and every field of the Dashboard's state are as before.
C18_FailedTestAlertEndsDefined ==
    [][/\ (settings.mounted /\ settings.alertReq = "pending"
            /\ settings'.alertReq = "failed") =>
              /\ settings'.status = <<TestAlertError>>
              /\ settings'.status[1].type = "error"
              /\ settings'.loading = FALSE
              /\ settings'.config = settings.config
              /\ UNCHANGED dashboard
       /\ (settings.mounted /\ settings.alertReq = "pending"
            /\ settings'.alertReq = "ok") =>
              settings'.loading = FALSE]_vars

\* C18 witness: with the configuration loaded, a test alert has failed; the
\* error is shown and the button is enabled again.
C18_Witness ==
    /\ settings.mounted
    /\ settings.alertReq = "failed"
    /\ settings.config = <<(<<"slack", "email">>)>>
    /\ settings.status = <<TestAlertError>>
    /\ settings.loading = FALSE

\* The requests of cycle c that have not completed yet.
PendingFetches(c) == {k \in Kinds : cycles[c].fetch[k] = "pending"}

\* C19 as stated: a cycle commits only when the request completing now is
\* its last one, the other two have resolved and its flag is not set; and
\* whenever a cycle's completion writes any field (the five synchronized
\* ones, the error flag, the loading flag), none of its requests is still
\* pending.
C19_NoFieldWrittenWhilePending ==
    [][\A c \in DOMAIN cycles :
          /\ (Pending(c) /\ cycles'[c].outcome = "committed") =>
                 /\ Cardinality(PendingFetches(c)) = 1
                 /\ \A k \in Kinds \ PendingFetches(c) : cycles[c].fetch[k] = "ok"
                 /\ ~Cancelled(c)
          /\ (Pending(c) /\ cycles'[c] # cycles[c]
               /\ <<data, error, loading>>' # <<data, error, loading>>) =>
                 Cardinality(PendingFetches(c)) = 1]_vars

\* C19, amended: a cycle commits only when the request completing now is its
\* last one, the other two have resolved and its flag is not set, in every
\* order the three complete in; while more than one request of the cycle is
\* pending, a completion writes none of the five synchronized fields, and
\* one that does not settle the cycle writes nothing at all.  The first
\* rejection settles the cycle at once: if the cycle is current and the view
\* mounted, it sets the error flag and lowers the loading flag, whatever is
\* still pending.
C19_CommitAfterAllResolved ==
    [][\A c \in DOMAIN cycles :
          /\ (Pending(c) /\ cycles'[c].outcome = "committed") =>
                 /\ Cardinality(PendingFetches(c)) = 1
                 /\ \A k \in Kinds \ PendingFetches(c) : cycles[c].fetch[k] = "ok"
                 /\ ~Cancelled(c)
          /\ (Pending(c) /\ cycles'[c] # cycles[c]
               /\ Cardinality(PendingFetches(c)) > 1) =>
                 /\ data' = data
                 /\ cycles'[c].outcome \in {"pending", "failed", "failed_stale"}
          /\ (Pending(c) /\ cycles'[c] # cycles[c] /\ cycles'[c].outcome = "pending") =>
                 UNCHANGED <<data, error, loading>>
          /\ (Pending(c) /\ cycles'[c].outcome = "failed" /\ mounted) =>
                 /\ error' = DataError
                 /\ loading' = FALSE]_vars

\* C19 witness: one cycle was rejected and set the error flag with nothing
\* of it committed, and a later cycle committed.
C19_Witness ==
    /\ mounted
    /\ \E c, d \in DOMAIN cycles :
          /\ c < d
          /\ cycles[c].outcome = "failed"
          /\ cycles[d].outcome = "committed"
          /\ Sources = {d}

C21_OneActiveEpoch ==
    /\ Cardinality({e \in DOMAIN effects : ~effects[e].cancelled}) <= 1
    /\ Cardinality({e \in DOMAIN effects : effects[e].interval}) <= 1
    /\ \A e \in DOMAIN effects :
          (~effects[e].cancelled \/ effects[e].interval) =>
              /\ mounted
              /\ e = Len(effects)
              /\ effects[e].resourceId = resourceId
              /\ effects[e].range = range
    /\ \A c \in DOMAIN cycles :
          (Pending(c) /\ <<effects[EffectOf(c)].resourceId, effects[EffectOf(c)].range>>
                          # <<resourceId, range>>) =>
              Cancelled(c)

\* C21 witness: after a range change the cycle of the old range is still in
\* flight, cancelled, next to the cycle of the new range, whose instance is
\* the only live one.
C21_Witness ==
    /\ mounted
    /\ Len(effects) = 2
    /\ effects[1].range # range
    /\ effects[1].cancelled /\ ~effects[1].interval
    /\ ~effects[2].cancelled /\ effects[2].interval
    /\ Len(cycles) = 2
    /\ Pending(1) /\ Pending(2)
    /\ EffectOf(1) = 1 /\ EffectOf(2) = 2

\* C22: when a cycle's Promise.all rejects after the cycle's instance was
\* cleaned up (by a change of resourceId or range, or by the unmount), the
\* step leaves the error flag, the loading flag and the five synchronized
\* fields as they were.
C22_StaleFailureChangesNothing ==
    [][\A c \in DOMAIN cycles :
          (Pending(c) /\ Cancelled(c)
           /\ cycles'[c].outcome \in {"failed", "failed_stale"}) =>
              /\ error' = error
              /\ loading' = loading
              /\ data' = data]_vars

\* C22 witness: the cycle of the old parameters has failed after the
\* change; no error is shown and the spinner of the new cycle, still in
\* flight, is up.
C22_Witness ==
    /\ mounted
    /\ Len(cycles) = 2
    /\ EffectOf(1) < EffectOf(2)
    /\ cycles[1].outcome = "failed_stale"
    /\ Pending(2)
    /\ error = NoError
    /\ loading

\* Cycle c is the non-silent first cycle of the live effect instance, the
\* one created for the selected (resourceId, range).
FirstOfCurrent(c) ==
    /\ mounted
    /\ ~cycles[c].silent
    /\ EffectOf(c) = Len(effects)
    /\ ~Cancelled(c)

\* C23: while the first cycle issued for the selected parameters is in
\* flight the loading flag is true, and the flag goes down only in the step
\* in which that cycle settles.
C23_LoadingWhileFirstCycleInFlight ==
    /\ [](\A c \in DOMAIN cycles : (FirstOfCurrent(c) /\ Pending(c)) => loading)
    /\ [][(loading /\ ~loading') =>
              \E c \in DOMAIN cycles : FirstOfCurrent(c) /\ SettlesNow(c)]_vars

\* C24: once a cycle has committed (its snapshot is on screen, the error
\* flag cleared), the error flag is raised only by the failure of a cycle
\* started after that one.
C24_ErrorOnlyFromLaterCycle ==
    [][(metrics # 0 /\ error = NoError /\ error' = DataError) =>
          \E c \in DOMAIN cycles : SettlesNow(c) /\ c > metrics]_vars

\* C25: in every state in which the configuration request has failed, or
\* has delivered an empty resource_ids list, the resource id is empty, no
\* effect instance and no cycle exists, and the loading flag still has the
\* value true it was given at mount.
C25_IdleForeverWithoutResource ==
    (configReq = "failed" \/ (configReq = "ok" /\ config = << >>)) =>
        /\ resourceId = ""
        /\ effects = << >>
        /\ cycles = << >>
        /\ loading = TRUE
        /\ data = <<0, [cycle |-> 0, list |-> << >>], 0, 0, 0>>

\* C25 witness: the configuration arrived with no resource id, the user has
\* clicked another range, and the view still shows its spinner with no
\* cycle started.
C25_Witness ==
    /\ mounted
    /\ configReq = "ok"
    /\ config = << >>
    /\ range = "24h"
    /\ resourceId = ""
    /\ cycles = << >>
    /\ loading
====
